---- MODULE Spec2Model ----
(***************************************************************************)
(* A model of two protocol engines of xitca-web:                           *)
(*                                                                         *)
(*   - postgres/src/pool.rs: SharedClient, the supervisor that puts one    *)
(*     postgres Client behind a tokio RwLock and reconnects it through the *)
(*     Spawner / SpawnGuard pair when a call reports Error::DriverDown;    *)
(*   - actix-http-alt/src/h1/proto/dispatcher.rs: the HTTP/1 connection    *)
(*     dispatcher (Dispatcher::run, RequestHandler, ResponseHandler, Io).  *)
(*                                                                         *)
(* Each subsystem has its own specification (SpecPool, SpecCache, SpecH1); *)
(* the variables of the other subsystem stay at their initial value.       *)
(* Io::try_write is checked on its own, byte by byte, under SpecTryWrite,  *)
(* and the buffer Dispatcher::new builds under SpecNew.                    *)
(*                                                                         *)
(* Smaller units have one variable and one specification each:             *)
(*   SpecPipeline  SharedClient::pipeline and pipeline_slow (pool.rs)      *)
(*   SpecPrepare   SharedClient::prepare_cached alone (pool.rs)            *)
(*   SpecRegistry  Client::send_encode_simple and the response registry    *)
(*   SpecRows      RowSimpleStream::try_next (postgres/src/query/simple.rs)*)
(*   SpecConnect   driver::connect (postgres/src/driver.rs)                *)
(*   SpecBody      ResponseBody (xitca-client/src/h1/body.rs)              *)
(*   SpecRedirect  Redirect (web/src/handler/types/redirect.rs)            *)
(*   SpecRetry     SharedClient::query_raw, query_simple, prepare (pool.rs)*)
(***************************************************************************)
EXTENDS Integers, Sequences, FiniteSets, TLC

(***************************************************************************)
(* Bounds of the model.                                                    *)
(***************************************************************************)
\* concurrent callers of SharedClient
NumTasks == 2
\* distinct query strings prepare_cached can be given
NumStmts == 1
\* calls of prepare_cached before the callers start
MaxPrepare == 1
\* ids the process-wide counter hands out
MaxIds == 5

\* requests a client sends on one HTTP/1 connection
MaxReqs == 2
\* body chunks of one request
MaxBody == 1
\* body chunks of one response
MaxResBody == 1
\* tokens the socket holds for the dispatcher to read
MaxInFlight == 2
\* bytes encoded into the write buffer of Io::try_write
MaxBytes == 4
\* bytes of one encoded chunk
MaxChunk == 2
\* bytes the socket accepts in one write
MaxAccept == 2
\* statements of one pipeline
MaxPipe == 2
\* attempts of one pipeline that find the driver down
MaxDown == 3
\* requests sent on one Postgres session
MaxQueries == 3
\* DataRow messages of one answer
MaxRows == 2
\* asynchronous notifications of one session
MaxNotes == 1
\* hosts of one Config
MaxHosts == 3
\* bytes of one response body
MaxBodyLen == 2
\* polls of one ResponseBody
MaxPolls == 4
\* characters of one redirect uri
MaxUriLen == 2
\* statements of one simple query string
MaxStatements == 2
\* parameters of one query, types of one prepare
MaxParams == 3

Tasks == 1..NumTasks
Stmts == 1..NumStmts

(***************************************************************************)
(* SharedClient (postgres/src/pool.rs)                                     *)
(***************************************************************************)
VARIABLES
    inner,              \* SharedClient.inner: the Client behind the RwLock
    lock,               \* the RwLock itself: readers, writer, queued writers
    notify,             \* Spawner.notify: 0 is None, n > 0 is Some(Arc<Notify> n)
    notify_count,       \* Notify objects created so far (Arc::new(Notify::new()))
    waiters_notified,   \* the Notify objects notify_waiters() was called on
    statements_cache,   \* Persist.statements_cache
    NEXT_ID,            \* crate::prepare::NEXT_ID
    cached_out,         \* what the last call of prepare_cached returned
    pc,                 \* each caller's position
    arg,                \* each caller's operation: query_raw or query_simple
    first,              \* the result of the caller's first call of the client
    wait,               \* the Arc<Notify> a follower holds
    out,                \* what the operation returned to the caller
    calls,              \* log: the buffer of each call of the client a caller made
    seen,               \* log: the client (its gen) a caller got DriverDown from first
    spawned             \* log: the callers whose SpawnGuard::spawn returned a client

poolVars == <<inner, lock, notify, notify_count, waiters_notified, statements_cache,
              NEXT_ID, cached_out, pc, arg, first, wait, out, calls, seen, spawned>>

\* The state of one HTTP/1 connection (see the dispatcher below).
VARIABLES
    sock_in,        \* tokens the peer sent that the socket has not handed over yet
    peer,           \* "open", or "closed": a read past sock_in returns Ok(0)
    sent,           \* request heads the peer sent so far
    client_body,    \* body chunks the peer still owes for its last head
    read_buf,       \* Io.read_buf: the tokens read and not decoded
    advanced,       \* ReadBuf.advanced
    write_buf,      \* Io.write_buf
    sock_out,       \* tokens the socket accepted, in order
    flushed,        \* how many of them the last poll_flush covered
    ctype,          \* Context's ConnectionType
    is_expect,      \* Context::is_expect
    timer_expired,  \* KeepAlive::is_expired: the deadline of the timer has passed
    dpc,            \* position of Dispatcher::run
    req,            \* the request of the last decoded head
    body_handle,    \* Option<RequestBodyHandle>: 0 is None, n is n chunks to decode
    body,           \* the RequestBody of req as fed so far
    expect_ret,     \* what the expect service returned for req
    svc_req,        \* the request flow.service.call was given for req
    svc_out,        \* what the service future resolved to for req
    handler,        \* RequestHandler::poll: its last round with the service pending
    res,            \* the response request_handler returned for req
    run_result      \* what Dispatcher::run returned

h1Vars == <<sock_in, peer, sent, client_body, read_buf, advanced, write_buf, sock_out,
            flushed, ctype, is_expect, timer_expired, dpc, req, body_handle, body, expect_ret,
            svc_req, svc_out, handler, res, run_result>>

ioVars == <<sock_in, read_buf, advanced, write_buf, sock_out, flushed>>
clientVars == <<peer, sent, client_body>>
reqVars == <<ctype, is_expect, timer_expired, req, body_handle, body, expect_ret, svc_req, svc_out, handler, res>>

\* Io::try_write on its own: the write buffer in its two forms, the socket, and
\* what the last call did.
VARIABLES
    wio

\* Operations checked on their own, one caller or one value at a time.
VARIABLES
    pipe,       \* one call of SharedClient::pipeline
    reg,        \* the response registry of one Postgres session
    cn,         \* one call of driver::connect
    rbody,      \* one ResponseBody of the HTTP/1 client
    rdr,        \* one Redirect and the response made from it
    rows,       \* one RowSimpleStream
    retry       \* one call of SharedClient::query_raw, query_simple or prepare

unitVars == <<wio, pipe, reg, cn, rbody, rdr, rows, retry>>
besidesWio == <<pipe, reg, cn, rbody, rdr, rows, retry>>
besidesPipe == <<wio, reg, cn, rbody, rdr, rows, retry>>
besidesReg == <<wio, pipe, cn, rbody, rdr, rows, retry>>
besidesCn == <<wio, pipe, reg, rbody, rdr, rows, retry>>
besidesRbody == <<wio, pipe, reg, cn, rdr, rows, retry>>
besidesRdr == <<wio, pipe, reg, cn, rbody, rows, retry>>
besidesRows == <<wio, pipe, reg, cn, rbody, rdr, retry>>
besidesRetry == <<wio, pipe, reg, cn, rbody, rdr, rows>>

vars == <<poolVars, h1Vars, unitVars>>

None == [kind |-> "None", buf |-> <<>>]
Ok == [kind |-> "Ok", buf |-> <<>>]
Err == [kind |-> "Err", buf |-> <<>>]
DriverDown(buf) == [kind |-> "DriverDown", buf |-> buf]

\* The frontend bytes of one call: extended query (Bind ..) or simple query.
Encode(op) == IF op = "query_raw" THEN <<"B">> ELSE <<"Q">>

\* What a call of the client with the encoded bytes buf can return: a dead
\* driver hands the bytes back in DriverDown; a live one answers.
ClientResults(cli, buf) == IF cli.alive THEN {Ok, Err} ELSE {DriverDown(buf)}

\* RwLock::try_read: fails while a writer holds the lock or is queued for it.
CanRead == lock.writer = 0 /\ lock.waiting = {}

ReadLock(t) == [lock EXCEPT !.readers = @ \cup {t}]
ReadUnlock(t) == [lock EXCEPT !.readers = @ \ {t}]

PoolInit ==
    /\ inner = [gen |-> 0, alive |-> TRUE, prepared |-> {}]
    /\ lock = [readers |-> {}, writer |-> 0, waiting |-> {}]
    /\ notify = 0
    /\ notify_count = 0
    /\ waiters_notified = {}
    /\ statements_cache = <<>>
    /\ NEXT_ID = 1
    /\ cached_out = None
    /\ pc = [t \in Tasks |-> "idle"]
    /\ arg = [t \in Tasks |-> "none"]
    /\ first = [t \in Tasks |-> None]
    /\ wait = [t \in Tasks |-> 0]
    /\ out = [t \in Tasks |-> None]
    /\ calls = [t \in Tasks |-> <<>>]
    /\ seen = [t \in Tasks |-> 0]
    /\ spawned = {}

\* The driver task of the current client ends (peer close, fatal error).
driver_down ==
    /\ inner.alive
    /\ inner' = [inner EXCEPT !.alive = FALSE]
    /\ UNCHANGED <<lock, notify, notify_count, waiters_notified, statements_cache,
                   NEXT_ID, cached_out, pc, arg, first, wait, out, calls, seen, spawned>>
    /\ UNCHANGED <<h1Vars, unitVars>>

\* An entry that does not carry the id the statement was prepared with.
CacheEntry_no_id(id, query) == [id |-> 0, query |-> query]

\* The entry prepare_cached pushes; query stands for the pair (query, types).
CacheEntry(id, query) == [id |-> id, query |-> query]

\* A prepare_cached that pushes the entry before it looks at the result.
cache_push_first(ret, id, query) == Append(statements_cache, CacheEntry(id, query))

\* prepare_cached: `?` on the result of prepare_with_id returns an error at
\* once; the push is reached with Ok only.
cache_push(ret, id, query) ==
    IF ret.kind = "Ok" THEN Append(statements_cache, CacheEntry(id, query))
    ELSE statements_cache

\* SharedClient::prepare_cached(&mut self, ..): the exclusive borrow means no
\* other call is in flight.
prepare_cached ==
    /\ \A t \in Tasks : pc[t] = "idle"
    /\ NEXT_ID <= MaxIds
    /\ \E query \in Stmts, ret \in ClientResults(inner, <<"P", NEXT_ID>>) :
        /\ NEXT_ID' = NEXT_ID + 1
        /\ inner' = IF ret.kind = "Ok" THEN [inner EXCEPT !.prepared = @ \cup {NEXT_ID}]
                                       ELSE inner
        /\ statements_cache' = cache_push(ret, NEXT_ID, query)
        /\ cached_out' = ret
    /\ UNCHANGED <<lock, notify, notify_count, waiters_notified,
                   pc, arg, first, wait, out, calls, seen, spawned>>
    /\ UNCHANGED <<h1Vars, unitVars>>

\* SharedClient::read: one round of the try_read loop.
try_read(t) ==
    IF CanRead
    THEN /\ lock' = ReadLock(t)
         /\ pc' = [pc EXCEPT ![t] = "call"]
    ELSE /\ pc' = [pc EXCEPT ![t] = "wait_for_spawn"]
         /\ UNCHANGED lock

\* A caller starts query_raw or query_simple: let cli = self.read().await.
Start(t) ==
    /\ pc[t] = "idle"
    /\ \E op \in {"query_raw", "query_simple"} : arg' = [arg EXCEPT ![t] = op]
    /\ try_read(t)
    /\ UNCHANGED <<inner, notify, notify_count, waiters_notified, statements_cache,
                   NEXT_ID, cached_out, first, wait, out, calls, seen, spawned>>
    /\ UNCHANGED <<h1Vars, unitVars>>

\* SharedClient::read: the loop comes back from wait_for_spawn.
read(t) ==
    /\ pc[t] = "read"
    /\ try_read(t)
    /\ UNCHANGED <<inner, notify, notify_count, waiters_notified, statements_cache,
                   NEXT_ID, cached_out, arg, first, wait, out, calls, seen, spawned>>
    /\ UNCHANGED <<h1Vars, unitVars>>

\* Spawner::wait_for_spawn, up to the clone of the slot.
wait_for_spawn(t) ==
    /\ pc[t] = "wait_for_spawn"
    /\ IF notify # 0
       THEN /\ wait' = [wait EXCEPT ![t] = notify]
            /\ pc' = [pc EXCEPT ![t] = "wfs_notified"]
       ELSE /\ pc' = [pc EXCEPT ![t] = "read"]
            /\ UNCHANGED wait
    /\ UNCHANGED <<inner, lock, notify, notify_count, waiters_notified, statements_cache,
                   NEXT_ID, cached_out, arg, first, out, calls, seen, spawned>>
    /\ UNCHANGED <<h1Vars, unitVars>>

\* Notify::notified() on the held Arc<Notify>: the Notified future exists from
\* here on and receives the notify_waiters() calls made after this point only.
notified(t) ==
    /\ pc[t] \in {"wfs_notified", "rc_notified"}
    /\ pc' = [pc EXCEPT ![t] = IF pc[t] = "wfs_notified" THEN "wfs_wait" ELSE "rc_wait"]
    /\ UNCHANGED <<inner, lock, notify, notify_count, waiters_notified, statements_cache,
                   NEXT_ID, cached_out, arg, first, wait, out, calls, seen, spawned>>
    /\ UNCHANGED <<h1Vars, unitVars>>

\* The first call of the client under the read lock, and the match on its result.
query_first(t) ==
    /\ pc[t] = "call"
    /\ \E ret \in ClientResults(inner, Encode(arg[t])) :
        /\ first' = [first EXCEPT ![t] = ret]
        /\ IF ret.kind = "DriverDown"
           THEN /\ pc' = [pc EXCEPT ![t] = "reconnect"]
                /\ seen' = [seen EXCEPT ![t] = inner.gen]
                /\ UNCHANGED out
           ELSE /\ pc' = [pc EXCEPT ![t] = "done"]
                /\ out' = [out EXCEPT ![t] = ret]
                /\ UNCHANGED seen
    /\ calls' = [calls EXCEPT ![t] = Append(@, Encode(arg[t]))]
    /\ lock' = ReadUnlock(t)
    /\ UNCHANGED <<inner, notify, notify_count, waiters_notified, statements_cache,
                   NEXT_ID, cached_out, arg, wait, spawned>>
    /\ UNCHANGED <<h1Vars, unitVars>>

\* A spawn_or_wait that installs a Notify whatever the slot holds.
spawn_or_wait_no_check(t) ==
    /\ notify' = notify_count + 1
    /\ notify_count' = notify_count + 1
    /\ pc' = [pc EXCEPT ![t] = "write"]
    /\ UNCHANGED wait

\* A spawn_or_wait that hands a follower a Notify of its own.
spawn_or_wait_fresh(t) ==
    IF notify # 0
    THEN /\ wait' = [wait EXCEPT ![t] = notify_count + 1]
         /\ notify_count' = notify_count + 1
         /\ pc' = [pc EXCEPT ![t] = "rc_notified"]
         /\ UNCHANGED notify
    ELSE /\ notify' = notify_count + 1
         /\ notify_count' = notify_count + 1
         /\ pc' = [pc EXCEPT ![t] = "write"]
         /\ UNCHANGED wait

\* Spawner::spawn_or_wait, under the slot's mutex.
spawn_or_wait(t) ==
    IF notify # 0
    THEN /\ wait' = [wait EXCEPT ![t] = notify]
         /\ pc' = [pc EXCEPT ![t] = "rc_notified"]
         /\ UNCHANGED <<notify, notify_count>>
    ELSE /\ notify' = notify_count + 1
         /\ notify_count' = notify_count + 1
         /\ pc' = [pc EXCEPT ![t] = "write"]
         /\ UNCHANGED wait

\* SharedClient::reconnect, up to the match on spawn_or_wait.
reconnect(t) ==
    /\ pc[t] = "reconnect"
    /\ spawn_or_wait(t)
    /\ UNCHANGED <<inner, lock, waiters_notified, statements_cache,
                   NEXT_ID, cached_out, arg, first, out, calls, seen, spawned>>
    /\ UNCHANGED <<h1Vars, unitVars>>

\* The leader's self.inner.write().await: a free lock is taken at once and
\* guard.spawn() starts; otherwise the writer queues behind the readers ...
write(t) ==
    /\ pc[t] = "write"
    /\ IF lock.readers = {} /\ lock.writer = 0 /\ lock.waiting = {}
       THEN /\ lock' = [lock EXCEPT !.writer = t]
            /\ pc' = [pc EXCEPT ![t] = "spawn"]
       ELSE /\ lock' = [lock EXCEPT !.waiting = @ \cup {t}]
            /\ pc' = [pc EXCEPT ![t] = "write_wait"]
    /\ UNCHANGED <<inner, notify, notify_count, waiters_notified, statements_cache,
                   NEXT_ID, cached_out, arg, first, wait, out, calls, seen, spawned>>
    /\ UNCHANGED <<h1Vars, unitVars>>

\* ... and gets the lock once the last reader (or the writer) released it.
write_acquire(t) ==
    /\ pc[t] = "write_wait"
    /\ lock.readers = {} /\ lock.writer = 0
    /\ lock' = [lock EXCEPT !.waiting = @ \ {t}, !.writer = t]
    /\ pc' = [pc EXCEPT ![t] = "spawn"]
    /\ UNCHANGED <<inner, notify, notify_count, waiters_notified, statements_cache,
                   NEXT_ID, cached_out, arg, first, wait, out, calls, seen, spawned>>
    /\ UNCHANGED <<h1Vars, unitVars>>

\* The ids the replay loop of SpawnGuard::spawn leaves prepared on the new
\* client: the result of each prepare_with_id is dropped (let _ = ..).
Replayed == SUBSET {statements_cache[i].id : i \in 1..Len(statements_cache)}

\* SpawnGuard::spawn: a failed connect sleeps and retries; a successful one
\* replays the cache, and reconnect stores the new client.
spawn(t) ==
    /\ pc[t] = "spawn"
    /\ \/ UNCHANGED <<inner, pc, spawned>>
       \/ /\ \E ids \in Replayed :
                inner' = [gen |-> inner.gen + 1, alive |-> TRUE, prepared |-> ids]
          /\ pc' = [pc EXCEPT ![t] = "unlock"]
          /\ spawned' = spawned \cup {t}
    /\ UNCHANGED <<lock, notify, notify_count, waiters_notified, statements_cache,
                   NEXT_ID, cached_out, arg, first, wait, out, calls, seen>>
    /\ UNCHANGED <<h1Vars, unitVars>>

\* A leader that goes on to drop its SpawnGuard with the write lock in hand.
write_unlock_keeps_lock(t) ==
    /\ pc[t] = "unlock"
    /\ pc' = [pc EXCEPT ![t] = "drop_guard"]
    /\ UNCHANGED <<inner, lock, notify, notify_count, waiters_notified, statements_cache,
                   NEXT_ID, cached_out, arg, first, wait, out, calls, seen, spawned>>
    /\ UNCHANGED <<h1Vars, unitVars>>

\* drop(cli): the leader releases the write lock.
write_unlock(t) ==
    /\ pc[t] = "unlock"
    /\ lock' = [lock EXCEPT !.writer = 0]
    /\ pc' = [pc EXCEPT ![t] = "drop_guard"]
    /\ UNCHANGED <<inner, notify, notify_count, waiters_notified, statements_cache,
                   NEXT_ID, cached_out, arg, first, wait, out, calls, seen, spawned>>
    /\ UNCHANGED <<h1Vars, unitVars>>

\* The position a caller resumes at when its Notified future is woken.
Woken(p) == IF p = "wfs_wait" THEN "read" ELSE "retry_read"

\* SpawnGuard::drop: take the slot and notify_waiters() on what it held, which
\* wakes the Notified futures that exist on that Notify.
SpawnGuardDrop(t, after) ==
    /\ notify' = 0
    /\ IF notify # 0
       THEN /\ waiters_notified' = waiters_notified \cup {notify}
            /\ pc' = [u \in Tasks |->
                        IF u = t THEN after
                        ELSE IF pc[u] \in {"wfs_wait", "rc_wait"} /\ wait[u] = notify
                             THEN Woken(pc[u])
                             ELSE pc[u]]
       ELSE /\ pc' = [pc EXCEPT ![t] = after]
            /\ UNCHANGED waiters_notified

\* drop(guard) at the end of the leader path.
drop_guard(t) ==
    /\ pc[t] = "drop_guard"
    /\ SpawnGuardDrop(t, "retry_read")
    /\ UNCHANGED <<inner, lock, notify_count, statements_cache,
                   NEXT_ID, cached_out, arg, first, wait, out, calls, seen, spawned>>
    /\ UNCHANGED <<h1Vars, unitVars>>

\* A cancelled leader whose SpawnGuard is dropped before its write guard.
cancel_guard_first(t) ==
    /\ pc[t] \in {"write_wait", "spawn"}
    /\ SpawnGuardDrop(t, "cancelled")
    /\ UNCHANGED <<inner, lock, notify_count, statements_cache,
                   NEXT_ID, cached_out, arg, first, wait, out, calls, seen, spawned>>
    /\ UNCHANGED <<h1Vars, unitVars>>

\* The leader's future is dropped at one of its await points: the write guard
\* (or the queued write) goes first ...
cancel(t) ==
    /\ pc[t] \in {"write_wait", "spawn"}
    /\ lock' = [lock EXCEPT !.waiting = @ \ {t},
                            !.writer = IF @ = t THEN 0 ELSE @]
    /\ pc' = [pc EXCEPT ![t] = "cancel_guard"]
    /\ UNCHANGED <<inner, notify, notify_count, waiters_notified, statements_cache,
                   NEXT_ID, cached_out, arg, first, wait, out, calls, seen, spawned>>
    /\ UNCHANGED <<h1Vars, unitVars>>

\* ... then the SpawnGuard.
cancel_guard(t) ==
    /\ pc[t] = "cancel_guard"
    /\ SpawnGuardDrop(t, "cancelled")
    /\ UNCHANGED <<inner, lock, notify_count, statements_cache,
                   NEXT_ID, cached_out, arg, first, wait, out, calls, seen, spawned>>
    /\ UNCHANGED <<h1Vars, unitVars>>

\* self.inner.read().await after reconnect() returned.
retry_read(t) ==
    /\ pc[t] = "retry_read"
    /\ CanRead
    /\ lock' = ReadLock(t)
    /\ pc' = [pc EXCEPT ![t] = "retry_call"]
    /\ UNCHANGED <<inner, notify, notify_count, waiters_notified, statements_cache,
                   NEXT_ID, cached_out, arg, first, wait, out, calls, seen, spawned>>
    /\ UNCHANGED <<h1Vars, unitVars>>

\* A retry that starts from an empty buffer.
RetryBuf_empty(t) == <<>>

\* The buffer the retry (query_buf, query_buf_simple) is called with.
RetryBuf(t) == first[t].buf

\* The retry under the new read lock; its result goes to the caller as it is.
query_retry(t) ==
    /\ pc[t] = "retry_call"
    /\ \E ret \in ClientResults(inner, RetryBuf(t)) :
        out' = [out EXCEPT ![t] = ret]
    /\ calls' = [calls EXCEPT ![t] = Append(@, RetryBuf(t))]
    /\ lock' = ReadUnlock(t)
    /\ pc' = [pc EXCEPT ![t] = "done"]
    /\ UNCHANGED <<inner, notify, notify_count, waiters_notified, statements_cache,
                   NEXT_ID, cached_out, arg, first, wait, seen, spawned>>
    /\ UNCHANGED <<h1Vars, unitVars>>

PoolNext ==
    \/ driver_down
    \/ \E t \in Tasks :
        \/ Start(t)
        \/ read(t)
        \/ wait_for_spawn(t)
        \/ notified(t)
        \/ query_first(t)
        \/ reconnect(t)
        \/ write(t)
        \/ write_acquire(t)
        \/ spawn(t)
        \/ write_unlock(t)
        \/ drop_guard(t)
        \/ cancel(t)
        \/ cancel_guard(t)
        \/ retry_read(t)
        \/ query_retry(t)

\* The calls of prepare_cached, and the driver going down between them.
PrepareNext == prepare_cached \/ driver_down

CacheNext == (NEXT_ID <= MaxPrepare /\ prepare_cached) \/ PoolNext

(***************************************************************************)
(* Reconnect coordination                                                  *)
(***************************************************************************)

\* The positions between spawn_or_wait returning None and the SpawnGuard's drop.
LeaderPcs == {"write", "write_wait", "spawn", "unlock", "drop_guard", "cancel_guard"}

Leaders == {t \in Tasks : pc[t] \in LeaderPcs}

\* The positions from the call of reconnect() to the read lock of the retry.
ReconnectPcs == LeaderPcs \cup {"reconnect", "rc_notified", "rc_wait", "retry_read"}

\* C2: of the callers that got DriverDown from the same dead client and called
\* reconnect(), exactly one executes SpawnGuard::spawn(): never two of them.
C2_OneSpawnPerDeadClient ==
    \A t, u \in spawned : seen[t] = seen[u] => t = u

\* C3: at most one task is on the leader path of reconnect, and while one is,
\* the slot holds its Notify, so every other caller of spawn_or_wait is handed
\* that Notify (the follower path).
C3_AtMostOneLeader ==
    /\ Cardinality(Leaders) <= 1
    /\ Leaders # {} => notify # 0
    /\ \A t \in Tasks : pc[t] \in {"rc_notified", "rc_wait"} => wait[t] # 0

\* A leader holds the write lock while a follower waits on its Notify.
C3_Witness ==
    \E t, u \in Tasks :
        /\ pc[t] = "spawn" /\ lock.writer = t
        /\ pc[u] = "rc_wait" /\ wait[u] = notify

C5_RetryWithCarriedBuffer ==
    \A t \in Tasks :
        /\ pc[t] \in ReconnectPcs => t \notin lock.readers /\ first[t].kind = "DriverDown"
        /\ pc[t] = "retry_call" => t \in lock.readers
        /\ Len(calls[t]) <= 2
        /\ Len(calls[t]) = 2 =>
              first[t].kind = "DriverDown" /\ calls[t][2] = first[t].buf
                                           /\ calls[t][2] = Encode(arg[t])
        /\ first[t].kind \in {"Ok", "Err"} =>
              pc[t] = "done" /\ out[t] = first[t] /\ Len(calls[t]) = 1 /\ t \notin spawned

\* A caller whose retry after a reconnect succeeded.
C5_Witness ==
    \E t \in Tasks :
        /\ pc[t] = "done" /\ Len(calls[t]) = 2 /\ out[t].kind = "Ok"
        /\ first[t].buf # <<>>

\* C6: once a reconnect has replaced the client, every entry of
\* statements_cache is prepared on the client readers see.
C6_ReplayComplete ==
    (inner.gen > 0 /\ lock.writer = 0) =>
        \A i \in 1..Len(statements_cache) : statements_cache[i].id \in inner.prepared

\* C23: every call of prepare_cached takes one id from the counter; a
\* successful one appends exactly one entry, which carries that id, the id
\* the returned Statement was prepared with on the client; a failed one
\* appends nothing. The ids of statements_cache are strictly increasing in
\* list order (so pairwise distinct) and all below the counter.
C23_CachedIds ==
    /\ [](/\ \A i, j \in 1..Len(statements_cache) :
                i < j => statements_cache[i].id < statements_cache[j].id
          /\ \A i \in 1..Len(statements_cache) :
                statements_cache[i].id \in 1..(NEXT_ID - 1))
    /\ [][IF inner'.prepared # inner.prepared
          THEN /\ NEXT_ID' = NEXT_ID + 1
               /\ Len(statements_cache') = Len(statements_cache) + 1
               /\ SubSeq(statements_cache', 1, Len(statements_cache)) = statements_cache
               /\ statements_cache'[Len(statements_cache')].id = NEXT_ID
               /\ inner'.prepared = inner.prepared \cup {NEXT_ID}
          ELSE statements_cache' = statements_cache]_vars

\* Two cached statements with a failed prepare_cached between them.
C23_Witness ==
    /\ Len(statements_cache) = 2
    /\ statements_cache[1].id = 1 /\ statements_cache[2].id = 3
    /\ inner.prepared = {1, 3}

\* C34: a call of prepare_cached that returns an error (Err from a live
\* client, DriverDown from a dead one) leaves statements_cache as it was and
\* starts no reconnect: the client, the lock, the slot of the Spawner and
\* every caller are as before; the error is what prepare_with_id gave.
C34_FailedPrepareCachedKeepsCache ==
    [][(NEXT_ID' # NEXT_ID /\ cached_out'.kind # "Ok")
       => /\ statements_cache' = statements_cache
          /\ cached_out' \in ClientResults(inner, <<"P", NEXT_ID>>)
          /\ cached_out'.kind = (IF inner.alive THEN "Err" ELSE "DriverDown")
          /\ inner' = inner /\ lock' = lock
          /\ notify' = notify /\ notify_count' = notify_count
          /\ waiters_notified' = waiters_notified
          /\ pc' = pc /\ spawned' = spawned]_vars

\* A call on a dead client returned DriverDown and the cache still holds the
\* statement cached before.
C34_Witness ==
    /\ cached_out.kind = "DriverDown" /\ ~inner.alive /\ inner.gen = 0
    /\ Len(statements_cache) = 1 /\ NEXT_ID >= 3

\* C20: when a leader is about to drop its SpawnGuard (which calls
\* notify_waiters), after a completed reconnect and after a cancellation
\* alike, it neither holds the write lock nor is queued for it, so the
\* followers it wakes are not kept from the read lock by that leader.
C20_LockFreeAtNotify ==
    \A t \in Tasks :
        pc[t] \in {"drop_guard", "cancel_guard"} =>
            lock.writer # t /\ t \notin lock.waiting

\* A leader that finished its reconnect is about to notify a waiting follower.
C20_Witness ==
    \E t, u \in Tasks :
        /\ pc[t] = "drop_guard" /\ t \in spawned
        /\ notify # 0
        /\ pc[u] \in {"wfs_wait", "rc_wait"} /\ wait[u] = notify

C32_WriterImpliesNotify ==
    /\ (lock.writer # 0 \/ lock.waiting # {}) => notify # 0
    /\ ~CanRead => notify # 0
    /\ \A t \in Tasks : pc[t] = "cancel_guard" => lock.writer # t /\ t \notin lock.waiting

\* A caller's try_read has failed while the leader holds the write lock or
\* waits for it.
C32_Witness ==
    \E t \in Tasks, u \in Tasks :
        /\ pc[t] \in {"write_wait", "spawn"} /\ pc[u] = "wait_for_spawn"
        /\ ~CanRead /\ notify # 0

(***************************************************************************)
(* HTTP/1 dispatcher (actix-http-alt/src/h1/proto/dispatcher.rs)           *)
(*                                                                         *)
(* The wire is a sequence of tokens: a request is a head token followed by *)
(* its body chunk tokens; a response is an optional continue token, a head *)
(* token, chunk tokens and an eof token (what encode_eof writes).          *)
(***************************************************************************)
HeadIn(n, c, e, b) == [k |-> "head", id |-> n, ctype |-> c, expect |-> e, body |-> b]
ChunkIn(n) == [k |-> "chunk", id |-> n, ctype |-> "none", expect |-> FALSE, body |-> 0]
Out(k, n) == [k |-> k, id |-> n]

NoReq == [id |-> 0, by |-> "none"]
NoRes == [id |-> 0, src |-> "none", left |-> 0]
\* No round of RequestHandler::poll with the service pending so far.
NoRound == [ret |-> "none", new |-> FALSE, items |-> 0, handle |-> FALSE,
            read_pending |-> FALSE]
NoRet == [kind |-> "none", req |-> NoReq]
Running == [kind |-> "none", cause |-> "none"]
RunOk == [kind |-> "Ok", cause |-> "none"]
RunErr(cause) == [kind |-> "Err", cause |-> cause]

Min(a, b) == IF a < b THEN a ELSE b
Drop(seq, n) == SubSeq(seq, n + 1, Len(seq))

H1Init ==
    /\ sock_in = <<>> /\ peer = "open" /\ sent = 0 /\ client_body = 0
    /\ read_buf = <<>> /\ advanced = FALSE
    /\ write_buf = <<>> /\ sock_out = <<>> /\ flushed = 0
    /\ ctype = "Init" /\ is_expect = FALSE /\ timer_expired = FALSE
    /\ dpc = "decode"
    /\ req = NoReq /\ body_handle = 0 /\ body = [fed |-> 0, eof |-> FALSE]
    /\ expect_ret = NoRet /\ svc_req = NoReq /\ svc_out = "none" /\ res = NoRes
    /\ handler = NoRound
    /\ run_result = Running

(* The peer *)

\* The connection types a request head asks for. (Upgrade takes the arm of
\* Close in the match of run.)
ConnTypes == {"KeepAlive", "Close"}

\* The peer sends while run has not returned (the connection is dropped after
\* that) and the socket has room. Requests may be pipelined.
client_send_head ==
    /\ run_result = Running /\ Len(sock_in) < MaxInFlight
    /\ peer = "open" /\ sent < MaxReqs /\ client_body = 0
    /\ \E c \in ConnTypes, e \in BOOLEAN, b \in 0..MaxBody :
        /\ sock_in' = Append(sock_in, HeadIn(sent + 1, c, e, b))
        /\ client_body' = b
    /\ sent' = sent + 1
    /\ UNCHANGED <<peer, read_buf, advanced, write_buf, sock_out, flushed, dpc,
                   run_result, reqVars>>
    /\ UNCHANGED <<poolVars, unitVars>>

client_send_chunk ==
    /\ run_result = Running /\ Len(sock_in) < MaxInFlight
    /\ peer = "open" /\ client_body > 0
    /\ sock_in' = Append(sock_in, ChunkIn(sent))
    /\ client_body' = client_body - 1
    /\ UNCHANGED <<peer, sent, read_buf, advanced, write_buf, sock_out, flushed, dpc,
                   run_result, reqVars>>
    /\ UNCHANGED <<poolVars, unitVars>>

peer_close ==
    /\ run_result = Running
    /\ peer = "open"
    /\ peer' = "closed"
    /\ UNCHANGED <<sock_in, sent, client_body, read_buf, advanced, write_buf, sock_out,
                   flushed, dpc, run_result, reqVars>>
    /\ UNCHANGED <<poolVars, unitVars>>

(* Io *)

\* poll_read_ready / ready(READABLE): there is something to read, or the end.
ReadReady == sock_in # <<>> \/ peer # "open"

\* A try_read that marks the buffer advanced whatever it read.
TryRead_always_advanced ==
    [buf |-> read_buf \o sock_in, advanced |-> TRUE, err |-> peer # "open"]

\* Io::try_read: advance(false), then read until WouldBlock; Ok(0) is Closed.
TryRead ==
    [buf |-> read_buf \o sock_in, advanced |-> sock_in # <<>>, err |-> peer # "open"]

\* RequestBodyDecoder::decode in the while-let loop of poll_read_decode_body:
\* every buffered token is a chunk until `left` of them are decoded, then Eof.
DecodeBody(buf, left) ==
    LET n == Min(left, Len(buf))
    IN [buf |-> Drop(buf, n), fed |-> n, left |-> left - n, eof |-> n = left]

\* A poll_read_decode_body without `if done { *body_handle = None }`.
poll_read_decode_body_keeps_handle ==
    IF body_handle = 0 \/ ~ReadReady
    THEN [err |-> FALSE, new |-> FALSE, sock_in |-> sock_in, read_buf |-> read_buf,
          advanced |-> advanced, body_handle |-> body_handle, body |-> body]
    ELSE LET r == TryRead
             d == DecodeBody(r.buf, body_handle)
         IN IF r.err
            THEN [err |-> TRUE, new |-> FALSE, sock_in |-> <<>>, read_buf |-> r.buf,
                  advanced |-> r.advanced, body_handle |-> body_handle, body |-> body]
            ELSE [err |-> FALSE, new |-> d.fed > 0, sock_in |-> <<>>, read_buf |-> d.buf,
                  advanced |-> r.advanced, body_handle |-> body_handle,
                  body |-> [fed |-> body.fed + d.fed, eof |-> body.eof \/ d.eof]]

\* Io::poll_read_decode_body: the values it leaves and what it returns.
poll_read_decode_body ==
    IF body_handle = 0 \/ ~ReadReady
    THEN [err |-> FALSE, new |-> FALSE, sock_in |-> sock_in, read_buf |-> read_buf,
          advanced |-> advanced, body_handle |-> body_handle, body |-> body]
    ELSE LET r == TryRead
             d == DecodeBody(r.buf, body_handle)
         IN IF r.err
            THEN [err |-> TRUE, new |-> FALSE, sock_in |-> <<>>, read_buf |-> r.buf,
                  advanced |-> r.advanced, body_handle |-> body_handle, body |-> body]
            ELSE [err |-> FALSE, new |-> d.fed > 0, sock_in |-> <<>>, read_buf |-> d.buf,
                  advanced |-> r.advanced, body_handle |-> d.left,
                  body |-> [fed |-> body.fed + d.fed, eof |-> body.eof \/ d.eof]]

\* Io::try_write when the socket takes n tokens before WouldBlock.
try_write(n) ==
    /\ sock_out' = sock_out \o SubSeq(write_buf, 1, n)
    /\ write_buf' = Drop(write_buf, n)

\* A drain_write that returns without writing.
drain_none ==
    UNCHANGED <<write_buf, sock_out, flushed>>

\* Io::drain_write to its end: every token is written and the io flushed.
drain_ok ==
    /\ try_write(Len(write_buf))
    /\ flushed' = Len(sock_out')

\* Io::drain_write fails after the socket took n tokens.
drain_err(n) ==
    /\ try_write(n)
    /\ dpc' = "done" /\ run_result' = RunErr("write")
    /\ UNCHANGED flushed

(* Dispatcher *)

\* ResponseError::response_error: the response made from an error of the
\* expect or the main service; its body is empty.
response_error(id, src) == [id |-> id, src |-> src, left |-> 0]

\* flow.service.call(req): RequestHandler starts.
service_call(r) ==
    /\ svc_req' = r
    /\ dpc' = "service"

\* request_handler returned Ok(r); run encodes the head of r.
encode_head(r) ==
    /\ res' = r
    /\ write_buf' = Append(write_buf, Out("head", r.id))
    /\ dpc' = "response"

\* A new_pair whose RequestBody is always created open.
new_pair_open(decoder) ==
    [handle |-> decoder, body |-> [fed |-> 0, eof |-> FALSE]]

\* RequestBodyHandle::new_pair for a decoder with `decoder` chunks to come
\* (is_eof when there is none): handle 0 is None.
new_pair(decoder) ==
    IF decoder = 0
    THEN [handle |-> 0, body |-> [fed |-> 0, eof |-> TRUE]]
    ELSE [handle |-> decoder, body |-> [fed |-> 0, eof |-> FALSE]]

\* Dispatcher::decode_head at the top of the while loop of run, followed by
\* the start of request_handler when a head was decoded.
decode_head ==
    /\ dpc = "decode"
    /\ IF ~advanced \/ read_buf = <<>>
       THEN /\ dpc' = "drain"
            /\ UNCHANGED <<read_buf, run_result, reqVars>>
       ELSE IF Head(read_buf).k = "head"
       THEN LET h == Head(read_buf)
                r == [id |-> h.id, by |-> "client"]
            IN /\ read_buf' = Tail(read_buf)
               /\ ctype' = h.ctype
               /\ is_expect' = h.expect
               /\ timer_expired' = FALSE       \* self.timer.update(now)
               /\ req' = r
               /\ body_handle' = new_pair(h.body).handle
               /\ body' = new_pair(h.body).body
               /\ UNCHANGED <<expect_ret, svc_out, handler, res>>
               /\ IF h.expect
                  THEN dpc' = "expect" /\ svc_req' = NoReq
                  ELSE service_call(r)
               /\ UNCHANGED run_result
       ELSE \* leftover body bytes where a head is expected: no head comes out
            /\ \/ dpc' = "drain" /\ UNCHANGED run_result
               \/ dpc' = "done" /\ run_result' = RunErr("decode_head")
            /\ UNCHANGED <<read_buf, reqVars>>
    /\ UNCHANGED <<sock_in, advanced, write_buf, sock_out, flushed, clientVars>>
    /\ UNCHANGED <<poolVars, unitVars>>

\* The Err arm with the main service called all the same.
expect_err_falls_through(r) ==
    /\ service_call(r)
    /\ UNCHANGED <<res, write_buf>>

\* request_handler, the Err(e) arm of the match on the expect service's result
\* for request r: return Ok(response_error(e)), which run encodes.
expect_err(r) ==
    /\ encode_head(response_error(r.id, "expect_error"))
    /\ UNCHANGED svc_req

\* request_handler: the expect service resolves.
expect_ready ==
    /\ dpc = "expect"
    /\ \/ /\ expect_ret' = [kind |-> "Ok", req |-> [req EXCEPT !.by = "expect"]]
          /\ write_buf' = Append(write_buf, Out("continue", req.id))
          /\ dpc' = "continue_drain"
          /\ UNCHANGED <<res, svc_req>>
       \/ /\ expect_ret' = [kind |-> "Err", req |-> NoReq]
          /\ expect_err(req)
    /\ UNCHANGED <<sock_in, read_buf, advanced, sock_out, flushed, clientVars, run_result,
                   ctype, is_expect, timer_expired, req, body_handle, body, svc_out, handler>>
    /\ UNCHANGED <<poolVars, unitVars>>

\* The main service called while 100 Continue is still in the write buffer.
continue_no_drain ==
    /\ dpc = "continue_drain"
    /\ service_call(expect_ret.req)
    /\ UNCHANGED <<ioVars, clientVars, run_result,
                   ctype, is_expect, timer_expired, req, body_handle, body, expect_ret, svc_out, handler, res>>
    /\ UNCHANGED <<poolVars, unitVars>>

\* request_handler: drain_write after encode_continue, then the main service.
continue_drain ==
    /\ dpc = "continue_drain"
    /\ \/ /\ drain_ok
          /\ service_call(expect_ret.req)
          /\ UNCHANGED run_result
       \/ /\ peer = "closed"
          /\ \E n \in 0..(Len(write_buf) - 1) : drain_err(n)
          /\ UNCHANGED svc_req
    /\ UNCHANGED <<sock_in, read_buf, advanced, clientVars,
                   ctype, is_expect, timer_expired, req, body_handle, body, expect_ret, svc_out, handler, res>>
    /\ UNCHANGED <<poolVars, unitVars>>

\* Poll::Ready(o) handed on as it is: an Err of the service ends run.
handler_ready_propagates(o, n) ==
    /\ svc_out' = o
    /\ IF o = "Ok"
       THEN /\ encode_head([id |-> req.id, src |-> "service", left |-> n])
            /\ UNCHANGED run_result
       ELSE /\ dpc' = "done" /\ run_result' = RunErr("service")
            /\ UNCHANGED <<res, write_buf>>

\* What RequestHandler::poll does with the service's Poll::Ready(o), where n
\* is the number of body chunks of an Ok response.
handler_ready(o, n) ==
    /\ svc_out' = o
    /\ encode_head(IF o = "Ok"
                   THEN [id |-> req.id, src |-> "service", left |-> n]
                   ELSE response_error(req.id, "service_error"))
    /\ UNCHANGED run_result

\* RequestHandler::poll: the service future is ready.
service_ready ==
    /\ dpc = "service"
    /\ \/ \E n \in 0..MaxResBody : handler_ready("Ok", n)
       \/ handler_ready("Err", 0)
    /\ handler' = NoRound
    /\ UNCHANGED <<sock_in, read_buf, advanced, sock_out, flushed, clientVars,
                   ctype, is_expect, timer_expired, req, body_handle, body, expect_ret, svc_req>>
    /\ UNCHANGED <<poolVars, unitVars>>

\* poll_read_decode_body: the 'read loop was left because poll_read_ready
\* returned Pending, which registers the task for the next read readiness.
ReadLoopPending ==
    /\ body_handle # 0
    /\ ReadReady => /\ ~TryRead.err
                    /\ ~DecodeBody(TryRead.buf, body_handle).eof

\* A RequestHandler that goes to sleep whatever was decoded.
RequestHandler_pending_sleeps(p) == IF p.err THEN "Err" ELSE "Pending"

\* RequestHandler::poll, Poll::Pending arm: continue when
\* poll_read_decode_body(..)? returned true, return Poll::Pending otherwise.
RequestHandler_pending(p) ==
    IF p.err THEN "Err" ELSE IF p.new THEN "continue" ELSE "Pending"

\* What a poll does with the result p of poll_read_decode_body(..)?
pump_body(p, cause) ==
    /\ sock_in' = p.sock_in
    /\ read_buf' = p.read_buf
    /\ advanced' = p.advanced
    /\ body_handle' = p.body_handle
    /\ body' = p.body
    /\ IF p.err
       THEN dpc' = "done" /\ run_result' = RunErr(cause)
       ELSE UNCHANGED <<dpc, run_result>>

\* RequestHandler::poll: the service future is pending.
service_pending ==
    /\ dpc = "service"
    /\ pump_body(poll_read_decode_body, "body_read")
    /\ handler' = [ret |-> RequestHandler_pending(poll_read_decode_body),
                   new |-> poll_read_decode_body.new,
                   items |-> poll_read_decode_body.body.fed - body.fed,
                   handle |-> body_handle # 0,
                   read_pending |-> ReadLoopPending]
    /\ UNCHANGED <<write_buf, sock_out, flushed, clientVars,
                   ctype, is_expect, timer_expired, req, expect_ret, svc_req, svc_out, res>>
    /\ UNCHANGED <<poolVars, unitVars>>

\* An end of stream that finalizes the encoder twice.
encode_eof_twice(id) ==
    write_buf' = write_buf \o <<Out("eof", id), Out("eof", id)>>

\* ResponseHandler::poll, Poll::Ready(None): encoder.encode_eof.
encode_eof(id) ==
    write_buf' = Append(write_buf, Out("eof", id))

\* ResponseHandler::poll: the body stream yields a chunk, ends, or fails.
response_ready ==
    /\ dpc = "response"
    /\ \/ /\ res.left > 0
          /\ write_buf' = Append(write_buf, Out("chunk", res.id))
          /\ res' = [res EXCEPT !.left = @ - 1]
          /\ UNCHANGED <<dpc, body_handle, run_result>>
          /\ UNCHANGED <<req, body, expect_ret, svc_req, svc_out, handler>>
       \/ /\ res.left = 0
          /\ encode_eof(res.id)
          /\ dpc' = "decode"
          \* the end of the loop body drops req, res and body_handle
          /\ req' = NoReq /\ res' = NoRes
          /\ body_handle' = 0 /\ body' = [fed |-> 0, eof |-> FALSE]
          /\ expect_ret' = NoRet /\ svc_req' = NoReq /\ svc_out' = "none"
          /\ handler' = NoRound
          /\ UNCHANGED run_result
       \/ /\ res.left > 0
          /\ dpc' = "done" /\ run_result' = RunErr("response_body")
          /\ UNCHANGED <<write_buf, res, body_handle>>
          /\ UNCHANGED <<req, body, expect_ret, svc_req, svc_out, handler>>
    /\ UNCHANGED <<sock_in, read_buf, advanced, sock_out, flushed, clientVars,
                   ctype, is_expect, timer_expired>>
    /\ UNCHANGED <<poolVars, unitVars>>

\* ResponseHandler::poll: the body stream is pending; write what the socket
\* takes and pump the request body.
response_pending ==
    /\ dpc = "response"
    /\ \E n \in 0..Len(write_buf) : try_write(n)
    /\ pump_body(poll_read_decode_body, "body_read_response")
    /\ UNCHANGED <<flushed, clientVars,
                   ctype, is_expect, timer_expired, req, expect_ret, svc_req, svc_out, handler, res>>
    /\ UNCHANGED <<poolVars, unitVars>>

\* run: drain_write after the while loop, then the match on the connection type.
drain_write ==
    /\ dpc = "drain"
    /\ \/ /\ drain_ok
          /\ IF ctype \in {"Init", "KeepAlive"}
             THEN dpc' = "select" /\ UNCHANGED run_result
             ELSE dpc' = "done" /\ run_result' = RunOk
       \/ /\ peer = "closed"
          /\ \E n \in 0..(Len(write_buf) - 1) : drain_err(n)
    /\ UNCHANGED <<sock_in, read_buf, advanced, clientVars, reqVars>>
    /\ UNCHANGED <<poolVars, unitVars>>

\* run: the select! arm of self.io.read().
select_read ==
    /\ dpc = "select"
    /\ ReadReady
    /\ sock_in' = <<>>
    /\ read_buf' = TryRead.buf
    /\ advanced' = TryRead.advanced
    /\ IF TryRead.err
       THEN dpc' = "done" /\ run_result' = RunErr("read")
       ELSE dpc' = "decode" /\ UNCHANGED run_result
    /\ UNCHANGED <<write_buf, sock_out, flushed, clientVars, reqVars>>
    /\ UNCHANGED <<poolVars, unitVars>>

\* The deadline of the keep-alive timer passes. The dispatcher looks at the
\* timer only in select!, so the clock is moved only there.
deadline_passes ==
    /\ dpc = "select" /\ ~timer_expired
    /\ timer_expired' = TRUE
    /\ UNCHANGED <<ioVars, clientVars, dpc, run_result,
                   ctype, is_expect, req, body_handle, body, expect_ret, svc_req, svc_out, handler, res>>
    /\ UNCHANGED <<poolVars, unitVars>>

\* A timer arm that answers the slow peer before it returns.
timer_init_answers ==
    /\ write_buf' = Append(write_buf, Out("head", 0))
    /\ dpc' = "done" /\ run_result' = RunOk

\* run, ConnectionType::Init: the timer arm returns Ok(()).
timer_init ==
    /\ dpc' = "done" /\ run_result' = RunOk
    /\ UNCHANGED write_buf

\* A timer arm that returns whatever is_expired() says.
timer_keep_alive_closes ==
    /\ dpc' = "done" /\ run_result' = RunOk

\* run, ConnectionType::KeepAlive: the timer arm returns Ok(()) when the
\* timer is expired; otherwise it resets the timer and the loop goes on.
timer_keep_alive ==
    IF timer_expired
    THEN dpc' = "done" /\ run_result' = RunOk
    ELSE dpc' = "decode" /\ UNCHANGED run_result

\* run: the select! arm of the keep-alive timer.
select_timer ==
    /\ dpc = "select"
    /\ \/ ctype = "Init" /\ timer_init
       \/ ctype = "KeepAlive" /\ timer_keep_alive /\ UNCHANGED write_buf
    /\ UNCHANGED <<sock_in, read_buf, advanced, sock_out, flushed, clientVars, reqVars>>
    /\ UNCHANGED <<poolVars, unitVars>>

H1Next ==
    \/ client_send_head
    \/ client_send_chunk
    \/ peer_close
    \/ decode_head
    \/ expect_ready
    \/ continue_drain
    \/ service_ready
    \/ service_pending
    \/ response_ready
    \/ response_pending
    \/ drain_write
    \/ select_read
    \/ select_timer
    \/ deadline_passes

(***************************************************************************)
(* Claims about the dispatcher                                             *)
(***************************************************************************)
Has(seq, tok) == \E i \in 1..Len(seq) : seq[i] = tok

\* What was written to the socket and flushed.
Flushed == SubSeq(sock_out, 1, flushed)

\* Every token encoded so far, written or not.
Encoded == sock_out \o write_buf

C7_ContinueAfterExpectDrainedBeforeService ==
    /\ (req # NoReq /\ Has(Encoded, Out("continue", req.id))) =>
          is_expect /\ expect_ret.kind = "Ok"
    /\ (svc_req # NoReq /\ is_expect) =>
          /\ expect_ret.kind = "Ok"
          /\ svc_req = expect_ret.req
          /\ Has(Flushed, Out("continue", req.id))
          /\ ~Has(write_buf, Out("continue", req.id))

\* The main service runs on the request of the expect service, after the
\* 100 Continue went out.
C7_Witness ==
    /\ dpc = "service" /\ is_expect
    /\ svc_req = [id |-> req.id, by |-> "expect"]
    /\ Has(Flushed, Out("continue", req.id))

\* C8: after an Err of the expect service the response in hand is the one made
\* from the error, the main service has not been called for the request, and
\* no 100 Continue of the request is encoded.
C8_ExpectErrorSkipsService ==
    expect_ret.kind = "Err" =>
        /\ dpc \in {"response", "done"}
        /\ res = response_error(req.id, "expect_error")
        /\ Has(Encoded, Out("head", req.id))
        /\ svc_req = NoReq /\ svc_out = "none"
        /\ ~Has(Encoded, Out("continue", req.id))

\* The response to an Err of the expect service is being written.
C8_Witness ==
    /\ expect_ret.kind = "Err" /\ dpc = "response"
    /\ res.src = "expect_error"

\* C9: after an Err of the main service RequestHandler resolved to Ok with the
\* response made from the error: run goes on to write that response and has
\* not returned.
C9_ServiceErrorBecomesResponse ==
    /\ svc_out = "Err" =>
          /\ dpc \in {"response", "done"}
          /\ res = response_error(req.id, "service_error")
          /\ Has(Encoded, Out("head", req.id))
    /\ run_result.cause # "service"

\* The response to an Err of the main service is being written.
C9_Witness ==
    /\ svc_out = "Err" /\ dpc = "response"
    /\ res.src = "service_error"

\* C10: run never returns Err for a read error met by poll_read_decode_body
\* while the service call is pending.
C10_BodyReadErrorNotFatal ==
    run_result # RunErr("body_read")

\* C11: while the connection type is Init nothing has been encoded or
\* written, also after run returned Ok(()) from the timer arm of select!.
C11_SlowConnectionClosedSilently ==
    ctype = "Init" =>
        /\ Encoded = <<>>
        /\ run_result.kind = "Ok" => dpc = "done" /\ req = NoReq /\ read_buf = <<>>

\* run returned Ok(()) on a connection that never sent a head.
C11_Witness ==
    /\ ctype = "Init" /\ run_result = RunOk
    /\ sent = 0 /\ sock_out = <<>>

\* C12: on a KeepAlive connection run returns Ok(()) only from the timer arm
\* with the timer expired (then nothing is left to write); a wake-up of the
\* timer before that leaves run going.
C12_KeepAliveClosedOnlyWhenExpired ==
    (ctype = "KeepAlive" /\ run_result.kind = "Ok") =>
        /\ timer_expired
        /\ write_buf = <<>> /\ flushed = Len(sock_out)

\* An idle KeepAlive connection, its response drained, closed by the expired
\* timer.
C12_Witness ==
    /\ ctype = "KeepAlive" /\ run_result = RunOk /\ timer_expired
    /\ Has(Flushed, Out("eof", 1))

\* C13: once the head of a handled request has set the connection type to
\* Close or Upgrade, no further request is taken in hand on the connection.
C13_NoRequestAfterClose ==
    [][(ctype \in {"Close", "Upgrade"} /\ req = NoReq) => req' = NoReq]_vars

\* The causes of run's Err that come out of Io::try_read.
ReadCauses == {"read", "body_read", "body_read_response"}

\* C14, as stated: advanced tells whether bytes were appended since the last
\* decode attempt, so right after an attempt of decode_head it is false.
C14_AdvancedClearedByDecode ==
    [][(dpc = "decode" /\ dpc' # "decode") => ~advanced']_vars

\* C14, amended: advanced is written by try_read alone, which leaves it true
\* exactly when it appended bytes to the read buffer; a decode attempt does
\* not clear it. With advanced false decode_head takes no head.
C14_AdvancedSetByTryReadOnly ==
    [][/\ IF sock_in # <<>> /\ sock_in' = <<>>
          THEN advanced' /\ Len(read_buf') + Len(sock_in) >= Len(read_buf)
          ELSE IF run_result = Running /\ run_result'.cause \in ReadCauses
          THEN ~advanced' /\ read_buf' = read_buf
          ELSE advanced' = advanced
       /\ (dpc = "decode" /\ ~advanced) =>
             /\ read_buf' = read_buf /\ req' = req /\ svc_req' = svc_req
             /\ dpc' \in {"decode", "drain"}]_vars

\* decode_head is about to run again after response 1 with advanced still
\* true and nothing in the read buffer.
C14_Witness ==
    /\ dpc = "decode" /\ advanced /\ read_buf = <<>>
    /\ Has(Encoded, Out("eof", 1))

\* C15: when a head is decoded whose body decoder is at EOF, there is no
\* body handle and the request's body is closed from the start; otherwise
\* there is a handle (for all the chunks to come) and the body is open; in
\* both cases nothing is fed yet.
C15_NewPair ==
    [][(req = NoReq /\ req' # NoReq) =>
          /\ body'.fed = 0
          /\ IF Head(read_buf).body = 0
             THEN body_handle' = 0 /\ body'.eof
             ELSE body_handle' = Head(read_buf).body /\ ~body'.eof]_vars

\* The service runs on a request whose body was created closed.
C15_Witness ==
    /\ dpc = "service" /\ req # NoReq
    /\ body_handle = 0 /\ body = [fed |-> 0, eof |-> TRUE]

\* C16: once EOF was fed to the body of the request in hand the body handle
\* is None, and as long as that request is in hand nothing more is fed.
C16_BodyEndsOnce ==
    [][/\ body'.eof => body_handle' = 0
       /\ (body.eof /\ req' = req) => body' = body]_vars

\* The body of a request ended by the EOF that followed its chunk.
C16_Witness ==
    /\ req # NoReq /\ body.eof /\ body.fed > 0
    /\ body_handle = 0

\* C17: in what has been encoded, every body chunk and every end of a
\* response comes after the head of that response, nothing of a response
\* comes after its end (so the end is encoded once), nothing but 100 Continue
\* comes before its head, and every response that is no longer in hand has
\* its end encoded.
C17_ResponseFraming ==
    /\ \A i \in 1..Len(Encoded) :
          LET t == Encoded[i]
          IN /\ t.k \in {"chunk", "eof"} =>
                   \E j \in 1..(i - 1) : Encoded[j] = Out("head", t.id)
             /\ t.k = "eof" =>
                   \A j \in (i + 1)..Len(Encoded) : Encoded[j].id # t.id
             /\ t.k = "head" =>
                   \A j \in 1..(i - 1) : Encoded[j].id = t.id => Encoded[j].k = "continue"
    /\ \A n \in 1..sent :
          (Has(Encoded, Out("head", n)) /\ req.id # n) => Has(Encoded, Out("eof", n))

\* A response with a body chunk that ResponseHandler completed.
C17_Witness ==
    /\ req = NoReq
    /\ Has(Encoded, Out("chunk", 1)) /\ Has(Encoded, Out("eof", 1))

C28_BodyDrainedBeforeNextHead ==
    (dpc = "decode" /\ advanced /\ read_buf # <<>>) => Head(read_buf).k = "head"

(***************************************************************************)
(* Io::try_write and the write buffer (dispatcher.rs, Io and Dispatcher::new) *)
(*                                                                         *)
(* Bytes are numbered in the order they are encoded. A flat buffer is the  *)
(* sequence of its bytes, a list buffer the sequence of its chunks.        *)
(***************************************************************************)
\* The iovs array of the list arm: [io::IoSlice::new(&[]); 64].
IOV_MAX == 64

\* WriteBuf::new(is_vectored).
WriteBuf_new(is_vectored) == IF is_vectored THEN "List" ELSE "Flat"

\* Dispatcher::new on an io whose is_write_vectored() is is_write_vectored.
Dispatcher_new(is_write_vectored) ==
    [vectored |-> is_write_vectored, kind |-> WriteBuf_new(FALSE), buf |-> <<>>,
     made |-> 0, pre |-> <<>>, acc |-> <<>>, ret |-> "none", last |-> "none"]

\* What the socket can answer to one write.
SockOk(n) == [k |-> "Ok", n |-> n]
SockWouldBlock == [k |-> "WouldBlock", n |-> 0]
SockErr == [k |-> "Err", n |-> 0]
SockResults == {SockOk(n) : n \in 0..MaxAccept} \cup {SockWouldBlock, SockErr}

RECURSIVE Flatten(_)
Flatten(list) == IF list = <<>> THEN <<>> ELSE Head(list) \o Flatten(Tail(list))

\* The bytes a write buffer holds, in order.
Content(kind, buf) == IF kind = "Flat" THEN buf ELSE Flatten(buf)

\* queue.remaining() of the list buffer.
Remaining(list) == Len(Flatten(list))

\* queue.advance(n) of the list buffer: n bytes leave from the front.
RECURSIVE Advance(_, _)
Advance(list, n) ==
    IF list = <<>> THEN <<>>
    ELSE IF n >= Len(Head(list)) THEN Advance(Tail(list), n - Len(Head(list)))
    ELSE <<Drop(Head(list), n)>> \o Tail(list)

\* A WouldBlock arm that leaves the flat buffer as it was.
flat_would_block_no_advance(buf, written) ==
    [ret |-> "true", buf |-> buf, acc |-> SubSeq(buf, 1, written), last |-> "WouldBlock"]

\* try_write, flat arm, on WouldBlock: buf.advance(written); return Ok(true).
flat_would_block(buf, written) ==
    [ret |-> "true", buf |-> Drop(buf, written), acc |-> SubSeq(buf, 1, written),
     last |-> "WouldBlock"]

\* try_write, WriteBuf::Flat: the outcomes of the while loop, one for each
\* way the socket can answer its writes.
RECURSIVE try_write_flat(_, _)
try_write_flat(buf, written) ==
    IF written >= Len(buf)
    THEN {[ret |-> "false", buf |-> <<>>, acc |-> SubSeq(buf, 1, written),
           last |-> "drained"]}
    ELSE UNION {
           IF r.k = "WouldBlock" THEN {flat_would_block(buf, written)}
           ELSE IF r.k = "Err"
           THEN {[ret |-> "Err", buf |-> buf, acc |-> SubSeq(buf, 1, written),
                  last |-> "Err"]}
           ELSE IF r.n = 0
           THEN {[ret |-> "Closed", buf |-> buf, acc |-> SubSeq(buf, 1, written),
                  last |-> "Zero"]}
           ELSE try_write_flat(buf, written + Min(r.n, Len(buf) - written))
           : r \in SockResults}

\* try_write, WriteBuf::List: the outcomes of the while loop; one write offers
\* the first IOV_MAX chunks.
RECURSIVE try_write_list(_, _)
try_write_list(list, acc) ==
    IF Remaining(list) = 0
    THEN {[ret |-> "false", buf |-> list, acc |-> acc, last |-> "drained"]}
    ELSE LET offered == Flatten(SubSeq(list, 1, Min(IOV_MAX, Len(list))))
         IN UNION {
              IF r.k = "WouldBlock"
              THEN {[ret |-> "true", buf |-> list, acc |-> acc, last |-> "WouldBlock"]}
              ELSE IF r.k = "Err"
              THEN {[ret |-> "Err", buf |-> list, acc |-> acc, last |-> "Err"]}
              ELSE IF r.n = 0
              THEN {[ret |-> "Closed", buf |-> list, acc |-> acc, last |-> "Zero"]}
              ELSE LET n == Min(r.n, Len(offered))
                   IN try_write_list(Advance(list, n), acc \o SubSeq(offered, 1, n))
              : r \in SockResults}

\* Io::try_write.
io_try_write ==
    /\ wio.ret \notin {"Closed", "Err"}
    /\ \E r \in (IF wio.kind = "List" THEN try_write_list(wio.buf, <<>>)
                                      ELSE try_write_flat(wio.buf, 0)) :
         wio' = [wio EXCEPT !.buf = r.buf, !.pre = Content(wio.kind, wio.buf),
                            !.acc = r.acc, !.ret = r.ret, !.last = r.last]
    /\ UNCHANGED <<poolVars, h1Vars, besidesWio>>

\* An encoder puts a chunk of l bytes into the write buffer.
wb_put(l) ==
    /\ wio.ret \notin {"Closed", "Err"}
    /\ wio.made + l <= MaxBytes
    /\ LET bytes == [i \in 1..l |-> wio.made + i]
       IN wio' = [wio EXCEPT !.buf = IF wio.kind = "List" THEN Append(@, bytes)
                                                          ELSE @ \o bytes,
                             !.made = @ + l,
                             !.pre = <<>>, !.acc = <<>>, !.ret = "none", !.last = "none"]
    /\ UNCHANGED <<poolVars, h1Vars, besidesWio>>

WriteNext ==
    \/ \E l \in 1..MaxChunk : wb_put(l)
    \/ io_try_write

\* C18: after a call of try_write: Ok(true) is returned exactly when a
\* WouldBlock ended the call, and then the buffer is not empty and holds, in
\* order, exactly the bytes the socket did not accept; Ok(false) is returned
\* exactly when everything was accepted, and then the buffer is empty;
\* Err(Closed) is returned exactly when a write returned 0.
C18_TryWrite ==
    /\ wio.ret = "true" <=> wio.last = "WouldBlock"
    /\ wio.ret = "true" =>
          /\ Content(wio.kind, wio.buf) # <<>>
          /\ wio.acc \o Content(wio.kind, wio.buf) = wio.pre
    /\ wio.ret = "false" <=> wio.last = "drained"
    /\ wio.ret = "false" => Content(wio.kind, wio.buf) = <<>> /\ wio.acc = wio.pre
    /\ wio.ret = "Closed" <=> wio.last = "Zero"
    /\ wio.ret # "none" => \E n \in 0..Len(wio.pre) : wio.acc = SubSeq(wio.pre, 1, n)

\* A flat buffer the socket took a part of before it blocked.
C18_Witness ==
    /\ wio.kind = "Flat" /\ wio.ret = "true"
    /\ wio.acc # <<>> /\ wio.buf # <<>>

\* C19: the write buffer is the list form exactly when the io writes vectored.
C19_WriteBufFollowsIo ==
    wio.kind = "List" <=> wio.vectored

(***************************************************************************)
(* SharedClient::pipeline (postgres/src/pool.rs), one caller               *)
(*                                                                         *)
(* The buffer of a pipeline is a sequence of frames: "E" for the frames of *)
(* one bound statement, "S" for a Sync.                                    *)
(***************************************************************************)
\* Client::_pipeline: the bytes it hands to the driver. It may add a Sync.
_pipeline(buf) == {buf, Append(buf, "S")}

\* Client::_pipeline_no_additive_sync: the buffer goes to the driver as it is.
_pipeline_no_additive_sync(buf) == {buf}

\* A retry that goes through _pipeline again.
resend_pipeline(buf) == _pipeline(buf)

\* pipeline_slow: the call the retry makes with pipe.buf.
resend(buf) == _pipeline_no_additive_sync(buf)

\* How many Sync frames a buffer holds.
RECURSIVE Syncs(_)
Syncs(buf) ==
    IF buf = <<>> THEN 0
    ELSE (IF Head(buf) = "S" THEN 1 ELSE 0) + Syncs(Tail(buf))

\* SharedClient::pipeline: the first attempt under the read lock and the match
\* on its result. DriverDown(buf) goes to pipe.buf and on to pipeline_slow.
pipeline ==
    /\ pipe = [pc |-> "idle"]
    /\ \E n \in 1..MaxPipe, sync_mode, alive \in BOOLEAN :
         \E msg \in _pipeline([i \in 1..n |-> "E"]) :
           \E ret \in ClientResults([alive |-> alive], msg) :
             pipe' = [sync_mode |-> sync_mode,
                      buf |-> IF ret.kind = "DriverDown" THEN ret.buf
                                                         ELSE [i \in 1..n |-> "E"],
                      pc |-> IF ret.kind = "DriverDown" THEN "reconnect" ELSE "done",
                      alive |-> alive,
                      out |-> IF ret.kind = "DriverDown" THEN None ELSE ret,
                      calls |-> <<[method |-> "_pipeline", sent |-> msg, ret |-> ret]>>]
    /\ UNCHANGED <<poolVars, h1Vars, besidesPipe>>

\* pipeline_slow: self.reconnect().await, after which the client is a new one
\* whose driver may be down again by the time it is called.
pipeline_reconnect ==
    /\ pipe.pc = "reconnect"
    /\ \E alive \in BOOLEAN :
         /\ ~alive => Len(pipe.calls) < MaxDown
         /\ pipe' = [pipe EXCEPT !.pc = "slow", !.alive = alive]
    /\ UNCHANGED <<poolVars, h1Vars, besidesPipe>>

\* pipeline_slow: the call under the new read lock and the match on its result.
pipeline_slow ==
    /\ pipe.pc = "slow"
    /\ \E msg \in resend(pipe.buf) :
         \E ret \in ClientResults(pipe, msg) :
           pipe' = [pipe EXCEPT
                      !.buf = IF ret.kind = "DriverDown" THEN ret.buf ELSE @,
                      !.pc = IF ret.kind = "DriverDown" THEN "reconnect" ELSE "done",
                      !.out = IF ret.kind = "DriverDown" THEN @ ELSE ret,
                      !.calls = Append(@, [method |-> "_pipeline_no_additive_sync",
                                           sent |-> msg, ret |-> ret])]
    /\ UNCHANGED <<poolVars, h1Vars, besidesPipe>>

PipelineNext ==
    \/ pipeline
    \/ pipeline_reconnect
    \/ pipeline_slow

\* C21: the first attempt of a pipeline is the only call of _pipeline; every
\* later attempt follows a DriverDown(buf), is a call of
\* _pipeline_no_additive_sync, and hands the driver exactly buf, so with the
\* Syncs the first attempt sent; the attempts go on while, and only while, the
\* result is DriverDown, and the first other result is what the caller gets.
C21_RetryWithoutSync ==
    pipe.pc # "idle" =>
      /\ pipe.calls[1].method = "_pipeline"
      /\ \A i \in 2..Len(pipe.calls) :
           /\ pipe.calls[i].method = "_pipeline_no_additive_sync"
           /\ pipe.calls[i - 1].ret.kind = "DriverDown"
           /\ pipe.calls[i].sent = pipe.calls[i - 1].ret.buf
           /\ Syncs(pipe.calls[i].sent) = Syncs(pipe.calls[1].sent)
      /\ LET last == pipe.calls[Len(pipe.calls)].ret
         IN /\ pipe.pc = "done" <=> last.kind # "DriverDown"
            /\ pipe.pc = "done" => pipe.out = last

\* A pipeline that got through at its second resend.
C21_Witness ==
    /\ pipe.pc = "done" /\ pipe.out.kind = "Ok"
    /\ Len(pipe.calls) = 3
    /\ Syncs(pipe.calls[1].sent) = 1

(***************************************************************************)
(* The response registry of one Postgres session (GenericDriver)           *)
(*                                                                         *)
(* A backend message is [type, of]: of is the request the server wrote it  *)
(* for (0 for an asynchronous notification). The server answers the        *)
(* requests in the order they were sent and ends each answer with          *)
(* ReadyForQuery.                                                          *)
(***************************************************************************)
BackendTypes == {"DataRow", "ReadyForQuery", "NotificationResponse"}

\* The registry before the first request.
RegInit ==
    [pc |-> "open", sent |-> 0, registry |-> <<>>, answered |-> 0, rows |-> 0,
     got |-> [i \in 1..MaxQueries |-> <<>>], completed |-> <<>>, yielded |-> 0]

\* A registry that hands a new Response the front place.
Register_front(registry, response) == <<response>> \o registry

\* The driver registers the Response of a send_with in FIFO order.
Register(registry, response) == Append(registry, response)

\* Client::send_encode_simple: tx.send_with encodes the query and returns the
\* Response the driver registers.
send_encode_simple ==
    /\ reg.sent < MaxQueries
    /\ reg' = [reg EXCEPT !.sent = @ + 1, !.registry = Register(@, reg.sent + 1)]
    /\ UNCHANGED <<poolVars, h1Vars, besidesReg>>

\* The receive path on one decoded backend message: a notification goes to
\* the driver's own consumer, anything else to the front of the registry, and
\* ReadyForQuery also completes and pops the front.
Route(r, msg) ==
    IF msg.type = "NotificationResponse"
    THEN [r EXCEPT !.yielded = @ + 1]
    ELSE LET front == Head(r.registry)
         IN IF msg.type = "ReadyForQuery"
            THEN [r EXCEPT !.got[front] = Append(@, msg),
                           !.completed = Append(@, front),
                           !.registry = Tail(@),
                           !.answered = @ + 1, !.rows = 0]
            ELSE [r EXCEPT !.got[front] = Append(@, msg), !.rows = @ + 1]

\* The server writes its next message and the driver decodes it.
recv ==
    \E type \in BackendTypes :
        /\ type = "NotificationResponse" => reg.yielded < MaxNotes
        /\ type # "NotificationResponse" => reg.answered < reg.sent
        /\ type = "DataRow" => reg.rows < MaxRows
        /\ reg' = Route(reg, [type |-> type,
                              of |-> IF type = "NotificationResponse" THEN 0
                                     ELSE reg.answered + 1])
        /\ UNCHANGED <<poolVars, h1Vars, besidesReg>>

RegistryNext ==
    \/ send_encode_simple
    \/ recv

\* C24: every message a response received is one the server wrote for that
\* request, none of them a notification; the responses complete in the order
\* the requests were sent, one per ReadyForQuery, and the registry holds, in
\* order, exactly the requests not yet answered, so its length went down by
\* one with each ReadyForQuery.
C24_RegistryFifo ==
    /\ \A i \in 1..MaxQueries :
         \A k \in 1..Len(reg.got[i]) :
            reg.got[i][k].of = i /\ reg.got[i][k].type # "NotificationResponse"
    /\ reg.completed = [i \in 1..reg.answered |-> i]
    /\ reg.registry = [k \in 1..(reg.sent - reg.answered) |-> reg.answered + k]
    /\ \A i \in 1..reg.answered :
         /\ reg.got[i] # <<>>
         /\ reg.got[i][Len(reg.got[i])].type = "ReadyForQuery"
         /\ \A k \in 1..(Len(reg.got[i]) - 1) : reg.got[i][k].type = "DataRow"
    /\ \A i \in (reg.answered + 1)..MaxQueries :
         \A k \in 1..Len(reg.got[i]) : reg.got[i][k].type = "DataRow"

\* Three requests are out, the first got its row and completed, and a
\* notification went by.
C24_Witness ==
    /\ reg.sent = 3 /\ reg.answered = 1 /\ Len(reg.registry) = 2
    /\ Len(reg.got[1]) = 2 /\ reg.yielded = 1

(***************************************************************************)
(* driver::connect (postgres/src/driver.rs)                                *)
(*                                                                         *)
(* A host is what connect_host does on it: "ok", or the error it fails     *)
(* with.                                                                   *)
(***************************************************************************)
HostErrors == {"refused", "timeout"}

RECURSIVE HostLists(_)
HostLists(n) ==
    IF n = 0 THEN {<<>>}
    ELSE HostLists(n - 1) \cup
         {Append(l, h) : l \in {k \in HostLists(n - 1) : Len(k) = n - 1},
                         h \in {"ok"} \cup HostErrors}

\* connect: let mut err = None; let hosts = cfg.get_hosts().to_vec();
connect ==
    /\ cn.pc = "idle"
    /\ \E hosts \in HostLists(MaxHosts) :
         cn' = [pc |-> "for", hosts |-> hosts, tried |-> 0, err |-> "None",
                out |-> [kind |-> "none", host |-> 0, err |-> "None"]]
    /\ UNCHANGED <<poolVars, h1Vars, besidesCn>>

\* One round of `for host in hosts`: Ok returns the client and the driver of
\* that host, Err(e) is kept in err.
connect_host ==
    /\ cn.pc = "for" /\ cn.tried < Len(cn.hosts)
    /\ LET host == cn.hosts[cn.tried + 1]
       IN IF host = "ok"
          THEN cn' = [cn EXCEPT !.tried = @ + 1, !.pc = "done",
                                !.out = [kind |-> "Ok", host |-> cn.tried + 1,
                                         err |-> "None"]]
          ELSE cn' = [cn EXCEPT !.tried = @ + 1, !.err = host]
    /\ UNCHANGED <<poolVars, h1Vars, besidesCn>>

\* After the loop: Err(err.unwrap()). unwrap of None panics.
connect_exhausted ==
    /\ cn.pc = "for" /\ cn.tried = Len(cn.hosts)
    /\ cn' = [cn EXCEPT !.pc = "done",
                        !.out = IF cn.err = "None"
                                THEN [kind |-> "panic", host |-> 0, err |-> "None"]
                                ELSE [kind |-> "Err", host |-> 0, err |-> cn.err]]
    /\ UNCHANGED <<poolVars, h1Vars, besidesCn>>

ConnectNext ==
    \/ connect
    \/ connect_host
    \/ connect_exhausted

\* The hosts of the list that connect.
OkHosts(hosts) == {i \in 1..Len(hosts) : hosts[i] = "ok"}

\* C25: connect tries the hosts in list order; it returns the client of the
\* first host that connects and tries no host after it; when no host
\* connects it returns an error value, the error of the last host tried when
\* there is one, for every host list, the empty one included.
C25_ConnectFailover ==
    cn.pc = "done" =>
        IF OkHosts(cn.hosts) # {}
        THEN /\ cn.out.kind = "Ok"
             /\ cn.out.host = CHOOSE i \in OkHosts(cn.hosts) :
                                  \A j \in OkHosts(cn.hosts) : i <= j
             /\ cn.tried = cn.out.host
        ELSE /\ cn.out.kind = "Err"
             /\ cn.tried = Len(cn.hosts)
             /\ cn.hosts # <<>> => cn.out.err = cn.hosts[Len(cn.hosts)]

(***************************************************************************)
(* ResponseBody of the HTTP/1 client (xitca-client/src/h1/body.rs)         *)
(*                                                                         *)
(* The body is counted in bytes. The decoder is a length-delimited         *)
(* TransferCoding: it is at EOF when no byte of the body is left, gives    *)
(* the buffered bytes of the body while some are left, and gives the       *)
(* empty chunk once when the last one was given.                           *)
(***************************************************************************)
NoDecoder == [some |-> FALSE, left |-> 0]
Decoder(left) == [some |-> TRUE, left |-> left]

\* TransferCoding::is_eof.
is_eof(decoder) == decoder.left = 0

\* ResponseBody::new: (!decoder.is_eof()).then(|| decoder).
ResponseBody_new(decoder) == IF is_eof(decoder) THEN NoDecoder ELSE decoder

\* A poll without decoder that reads the connection all the same.
poll_ended_reads(b) == [b EXCEPT !.reads = @ + 1, !.last = "None"]

\* poll_next, decoder None: return Poll::Ready(None).
poll_ended(b) == [b EXCEPT !.last = "None"]

\* A read of 0 bytes taken for the end of the body.
read_zero_ends(b) == [b EXCEPT !.reads = @ + 1, !.decoder = NoDecoder, !.last = "None"]

\* poll_next, poll_read_buf gave n == 0: return the UnexpectedEof error; the
\* decoder stays in place.
read_zero(b) == [b EXCEPT !.reads = @ + 1, !.last = "UnexpectedEof"]

\* poll_next: the loop, from the match on the decoder to the return.
RECURSIVE poll_loop(_)
poll_loop(b) ==
    IF ~b.decoder.some THEN poll_ended(b)
    ELSE IF b.decoder.left = 0
    THEN \* decode gave the empty chunk: this.decoder.take()
         poll_loop([b EXCEPT !.decoder = NoDecoder, !.ended_reads = b.reads])
    ELSE IF b.buf > 0
    THEN \* decode gave bytes
         LET n == Min(b.buf, b.decoder.left)
         IN [b EXCEPT !.buf = @ - n, !.decoder.left = @ - n,
                      !.given = @ + n, !.last = "Some"]
    ELSE \* decode gave None: poll_read_buf
         IF b.avail > 0
         THEN poll_loop([b EXCEPT !.buf = b.avail, !.avail = 0, !.reads = @ + 1])
         ELSE IF b.closed
         THEN read_zero(b)
         ELSE [b EXCEPT !.reads = @ + 1, !.last = "Pending"]

\* A response head was read: the body of len bytes starts with the buffer
\* holding the first buffered of them.
new_body ==
    /\ rbody.pc = "idle"
    /\ \E len \in 0..MaxBodyLen, buffered \in 0..MaxBodyLen :
         /\ buffered <= len
         /\ rbody' = [pc |-> "body", decoder |-> ResponseBody_new(Decoder(len)),
                      buf |-> buffered, avail |-> 0, owed |-> len - buffered,
                      closed |-> FALSE, reads |-> 0, ended_reads |-> 0, given |-> 0,
                      len |-> len, last |-> "none", polls |-> 0, after |-> {}]
    /\ UNCHANGED <<poolVars, h1Vars, besidesRbody>>

\* The server sends n more bytes of the body.
server_sends ==
    /\ rbody.pc = "body" /\ ~rbody.closed
    /\ \E n \in 1..MaxBodyLen :
         /\ n <= rbody.owed
         /\ rbody' = [rbody EXCEPT !.avail = @ + n, !.owed = @ - n]
    /\ UNCHANGED <<poolVars, h1Vars, besidesRbody>>

\* The server closes the connection.
server_closes ==
    /\ rbody.pc = "body" /\ ~rbody.closed
    /\ rbody' = [rbody EXCEPT !.closed = TRUE]
    /\ UNCHANGED <<poolVars, h1Vars, besidesRbody>>

\* ResponseBody::poll_next.
poll_next ==
    /\ rbody.pc = "body" /\ rbody.polls < MaxPolls
    /\ LET b == poll_loop(rbody)
       IN rbody' = [b EXCEPT !.polls = @ + 1,
                             !.after = IF rbody.decoder.some THEN @
                                       ELSE @ \cup {b.last}]
    /\ UNCHANGED <<poolVars, h1Vars, besidesRbody>>

BodyNext ==
    \/ new_body
    \/ server_sends
    \/ server_closes
    \/ poll_next

\* C26: a body built on a decoder at EOF has no decoder from the start, and a
\* body that decoded its end has none from then on; without decoder every
\* poll returned None and no read of the connection was made; the poll that
\* decodes the end returns None itself.
C26_EndedBodyStaysEnded ==
    rbody.pc = "body" =>
        /\ rbody.len = 0 => ~rbody.decoder.some /\ rbody.reads = 0
        /\ ~rbody.decoder.some =>
              /\ rbody.reads = rbody.ended_reads
              /\ rbody.after \subseteq {"None"}
              /\ rbody.last \in {"none", "None"}
              /\ rbody.given = rbody.len
        /\ rbody.last = "None" => ~rbody.decoder.some

\* A body that was read from the connection to its end and polled again.
C26_Witness ==
    /\ rbody.pc = "body" /\ ~rbody.decoder.some
    /\ rbody.len = 2 /\ rbody.reads >= 2 /\ rbody.after = {"None"}

\* C31: a poll that finds the connection closed with fewer bytes buffered and
\* in flight than the decoder still expects never yields None and never
\* leaves the decoder: it yields the bytes it has, or, with none at hand,
\* UnexpectedEof after the read of 0 bytes; and in every state None was
\* yielded only for a body delivered in full.
C31_TruncatedBodyIsAnError ==
    /\ [](rbody.pc = "body" =>
            /\ rbody.last = "None" => rbody.given = rbody.len
            /\ rbody.last = "UnexpectedEof" =>
                  rbody.closed /\ rbody.decoder.some /\ rbody.given < rbody.len)
    /\ [][(/\ rbody.pc = "body" /\ rbody'.polls # rbody.polls
           /\ rbody.closed /\ rbody.decoder.some
           /\ rbody.buf + rbody.avail < rbody.decoder.left)
          => /\ rbody'.last \in {"Some", "UnexpectedEof"}
             /\ rbody'.decoder.some
             /\ (rbody.buf + rbody.avail = 0) =>
                    rbody'.last = "UnexpectedEof" /\ rbody'.reads = rbody.reads + 1
             /\ (rbody.buf + rbody.avail > 0) => rbody'.last = "Some"]_vars

\* The connection was closed after a part of the body; the part was yielded
\* and the polls after it gave UnexpectedEof.
C31_Witness ==
    /\ rbody.pc = "body" /\ rbody.last = "UnexpectedEof"
    /\ rbody.given > 0 /\ rbody.given < rbody.len /\ rbody.polls >= 3

(***************************************************************************)
(* Redirect (web/src/handler/types/redirect.rs)                            *)
(*                                                                         *)
(* A uri is a sequence of characters; "\n" stands for the bytes a header   *)
(* value cannot hold.                                                      *)
(***************************************************************************)
UriChars == {"/", "9", "\n"}

Uris == UNION {[1..n -> UriChars] : n \in 1..MaxUriLen}

Constructors == {"found", "see_other", "temporary", "permanent"}

\* Constructors that all make a 303.
variants_see_other(name) == "SEE_OTHER"

\* variants!(name, STATUS): the StatusCode each constructor passes to new.
variants(name) ==
    CASE name = "found" -> "FOUND"
      [] name = "see_other" -> "SEE_OTHER"
      [] name = "temporary" -> "TEMPORARY_REDIRECT"
      [] name = "permanent" -> "PERMANENT_REDIRECT"

\* StatusCode::as_u16 of the http crate.
as_u16(status) ==
    CASE status = "OK" -> 200
      [] status = "NOT_FOUND" -> 404
      [] status = "FOUND" -> 302
      [] status = "SEE_OTHER" -> 303
      [] status = "TEMPORARY_REDIRECT" -> 307
      [] status = "PERMANENT_REDIRECT" -> 308

\* uri.try_into() of HeaderValue: the bytes of the uri when all of them are
\* allowed in a header value.
HeaderValue_try_from(uri) ==
    IF \E i \in 1..Len(uri) : uri[i] = "\n"
    THEN [ok |-> FALSE, bytes |-> <<>>]
    ELSE [ok |-> TRUE, bytes |-> uri]

\* Redirect::new.
Redirect_new(status, uri) ==
    [status |-> status, location |-> HeaderValue_try_from(uri)]

\* Responder::map of Redirect on the response res: the location's error, or
\* res with the status set and the Location header put in.
Redirect_map(self, response) ==
    IF ~self.location.ok
    THEN [kind |-> "Err", status |-> "none", headers |-> <<>>]
    ELSE [kind |-> "Ok", status |-> self.status,
          headers |-> Append(response.headers, <<"location", self.location.bytes>>)]

\* ctx.into_response(ResponseBody::empty()): a 200 without headers.
into_response == [kind |-> "Ok", status |-> "OK", headers |-> <<>>]

\* Redirect::respond.
Redirect_respond(self) == Redirect_map(self, into_response)

\* One of the four constructors is called with a uri.
redirect ==
    /\ rdr.pc = "idle"
    /\ \E name \in Constructors, uri \in Uris :
         rdr' = [pc |-> "made", name |-> name, uri |-> uri,
                 self |-> Redirect_new(variants(name), uri),
                 via |-> "none", out |-> [kind |-> "none", status |-> "none",
                                          headers |-> <<>>]]
    /\ UNCHANGED <<poolVars, h1Vars, besidesRdr>>

\* Responder::respond.
respond ==
    /\ rdr.pc = "made"
    /\ rdr' = [rdr EXCEPT !.pc = "done", !.via = "respond",
                          !.out = Redirect_respond(rdr.self)]
    /\ UNCHANGED <<poolVars, h1Vars, besidesRdr>>

\* Service<WebContext>::call: self.clone().respond(ctx).
call ==
    /\ rdr.pc = "made"
    /\ LET clone == rdr.self
       IN rdr' = [rdr EXCEPT !.pc = "done", !.via = "call",
                             !.out = Redirect_respond(clone)]
    /\ UNCHANGED <<poolVars, h1Vars, besidesRdr>>

\* Responder::map on a response made elsewhere.
map ==
    /\ rdr.pc = "made"
    /\ \E status \in {"OK", "NOT_FOUND"} :
         rdr' = [rdr EXCEPT !.pc = "done", !.via = "map",
                            !.out = Redirect_map(rdr.self,
                                                 [into_response EXCEPT !.status = status])]
    /\ UNCHANGED <<poolVars, h1Vars, besidesRdr>>

RedirectNext ==
    \/ redirect
    \/ respond
    \/ call
    \/ map

\* The Location headers of a response, as strings.
Locations(response) ==
    {response.headers[i][2] : i \in {j \in 1..Len(response.headers) :
                                       response.headers[j][1] = "location"}}

\* The status code the claim gives each constructor.
CodeOf(name) ==
    CASE name = "found" -> 302
      [] name = "see_other" -> 303
      [] name = "temporary" -> 307
      [] name = "permanent" -> 308

StatementReplies ==
    {<<[type |-> "RowDescription"]>> \o [i \in 1..n |-> [type |-> "DataRow"]]
        \o <<[type |-> "CommandComplete"]>> : n \in 0..MaxRows}
    \cup {<<[type |-> "CommandComplete"]>>, <<[type |-> "EmptyQueryResponse"]>>}

RECURSIVE QueryReplies(_)
\* The replies to a query string of n statements, before ReadyForQuery.
QueryReplies(n) ==
    IF n = 0 THEN {<<>>}
    ELSE {s \o t : s \in StatementReplies, t \in QueryReplies(n - 1)}

\* The backend message sequences of one simple query: the replies to its
\* statements, then ReadyForQuery.
BackendSequences ==
    UNION {{s \o <<[type |-> "ReadyForQuery"]>> : s \in QueryReplies(n)}
           : n \in 1..MaxStatements}

RECURSIVE try_next_loop(_, _)
\* RowSimpleStream::try_next on the messages not yet received: RowDescription
\* sets the columns and loops, DataRow returns the row, CommandComplete,
\* EmptyQueryResponse and ReadyForQuery return Ok(None), any other message
\* is an error.
try_next_loop(msgs, col) ==
    LET msg == Head(msgs)
    IN IF msg.type = "RowDescription" THEN try_next_loop(Tail(msgs), TRUE)
       ELSE [ret |-> IF msg.type = "DataRow" THEN "Some"
                     ELSE IF msg.type \in {"CommandComplete", "EmptyQueryResponse",
                                           "ReadyForQuery"}
                          THEN "None" ELSE "Err",
             on |-> msg.type, msgs |-> Tail(msgs), col |-> col]

\* Client::query_simple: the stream of a query the server answers with msgs.
query_simple ==
    /\ rows.pc = "idle"
    /\ \E msgs \in BackendSequences :
          rows' = [pc |-> "stream", msgs |-> msgs, col |-> FALSE, returns |-> <<>>]
    /\ UNCHANGED <<poolVars, h1Vars, besidesRows>>

\* One call of try_next while the response has messages left.
try_next ==
    /\ rows.pc = "stream" /\ rows.msgs # <<>>
    /\ LET r == try_next_loop(rows.msgs, rows.col)
       IN rows' = [rows EXCEPT !.msgs = r.msgs, !.col = r.col,
                               !.returns = Append(@, [ret |-> r.ret, on |-> r.on])]
    /\ UNCHANGED <<poolVars, h1Vars, besidesRows>>

RowsNext ==
    \/ query_simple
    \/ try_next

\* C29: try_next returns one row per DataRow, and the first Ok(None) of a
\* stream is returned on ReadyForQuery, not on an earlier message.
C29_NoneOnReadyForQuery ==
    rows.pc = "stream" =>
        \A i \in 1..Len(rows.returns) :
            /\ rows.returns[i].ret = "Some" <=> rows.returns[i].on = "DataRow"
            /\ (/\ rows.returns[i].ret = "None"
                /\ \A j \in 1..(i - 1) : rows.returns[j].ret # "None")
               => rows.returns[i].on = "ReadyForQuery"

(***************************************************************************)
(* SharedClient::query_raw, query_simple and prepare (postgres/src/pool.rs)*)
(* one call at a time                                                      *)
(*                                                                         *)
(* reconnect() is taken as a whole here: it returns with the client        *)
(* replaced by a new one, whose driver may be down again by the time it is *)
(* called, or with the old one when the leader was cancelled.              *)
(***************************************************************************)
Methods == {"query_raw", "query_simple", "prepare"}

\* The frontend bytes of a call with n parameters (types for a prepare).
EncodeCall(method, n) ==
    <<IF method = "query_raw" THEN "B" ELSE IF method = "query_simple" THEN "Q" ELSE "P">>
        \o [i \in 1..n |-> "p"]

\* A retry that reconnects again when the driver is down again.
retry_result_again(ret) ==
    IF ret.kind = "DriverDown" THEN [pc |-> "reconnect", out |-> None]
    ELSE [pc |-> "done", out |-> ret]

\* query_raw, query_simple: the value of the boxed block is the result of
\* query_buf / query_buf_simple, whatever it is.
retry_result(ret) == [pc |-> "done", out |-> ret]

\* query_raw, query_simple: the match on the result of the first call.
first_result(ret) ==
    IF ret.kind = "DriverDown" THEN [pc |-> "reconnect", out |-> None]
    ELSE [pc |-> "done", out |-> ret]

\* prepare: the match of one round of the loop; only DriverDown goes round.
prepare_result(ret) ==
    IF ret.kind = "DriverDown" THEN [pc |-> "reconnect", out |-> None]
    ELSE [pc |-> "done", out |-> ret]

\* The first call of the client under the read lock.
shared_call ==
    /\ retry.pc = "idle"
    /\ \E method \in Methods, n \in 0..MaxParams, alive \in BOOLEAN :
         \E ret \in ClientResults([alive |-> alive], EncodeCall(method, n)) :
            LET r == IF method = "prepare" THEN prepare_result(ret)
                     ELSE first_result(ret)
            IN retry' = [method |-> method, n |-> n, alive |-> alive,
                         pc |-> r.pc, out |-> r.out, reconnects |-> 0,
                         calls |-> <<[sent |-> EncodeCall(method, n), ret |-> ret]>>]
    /\ UNCHANGED <<poolVars, h1Vars, besidesRetry>>

\* self.reconnect().await in query_raw, query_simple and prepare.
shared_reconnect ==
    /\ retry.pc = "reconnect"
    /\ \E alive \in BOOLEAN :
         /\ ~alive => Len(retry.calls) < MaxDown
         /\ retry' = [retry EXCEPT !.alive = alive, !.reconnects = @ + 1,
                                   !.pc = IF retry.method = "prepare" THEN "loop"
                                          ELSE "retry"]
    /\ UNCHANGED <<poolVars, h1Vars, besidesRetry>>

\* query_raw, query_simple: self.inner.read().await.query_buf(stmt, msg) or
\* query_buf_simple(msg), with the bytes the DriverDown handed back.
shared_retry ==
    /\ retry.pc = "retry"
    /\ LET msg == retry.calls[1].ret.buf
       IN \E ret \in ClientResults(retry, msg) :
            LET r == retry_result(ret)
            IN retry' = [retry EXCEPT !.pc = r.pc, !.out = r.out,
                                      !.calls = Append(@, [sent |-> msg, ret |-> ret])]
    /\ UNCHANGED <<poolVars, h1Vars, besidesRetry>>

\* prepare: the next round of the loop, self.read() and cli._prepare(..).
shared_prepare_loop ==
    /\ retry.pc = "loop"
    /\ LET msg == EncodeCall(retry.method, retry.n)
       IN \E ret \in ClientResults(retry, msg) :
            LET r == prepare_result(ret)
            IN retry' = [retry EXCEPT !.pc = r.pc, !.out = r.out,
                                      !.calls = Append(@, [sent |-> msg, ret |-> ret])]
    /\ UNCHANGED <<poolVars, h1Vars, besidesRetry>>

RetryNext ==
    \/ shared_call
    \/ shared_reconnect
    \/ shared_retry
    \/ shared_prepare_loop

\* C33: a query_raw or query_simple makes at most two calls of the client
\* with one reconnect between them, the second only after a DriverDown of the
\* first, and returns the result of its last call, a DriverDown of the second
\* included; a prepare makes a call after each DriverDown, with a reconnect
\* before each, and returns the first result that is not DriverDown.
C33_RetryOnceOrUntilUp ==
    retry.pc # "idle" =>
        LET n == Len(retry.calls)
            last == retry.calls[n].ret
        IN /\ \A i \in 1..(n - 1) : retry.calls[i].ret.kind = "DriverDown"
           /\ retry.pc = "done" => retry.out = last /\ retry.reconnects = n - 1
           /\ retry.pc = "reconnect" => last.kind = "DriverDown" /\ retry.reconnects = n - 1
           /\ retry.pc \in {"retry", "loop"} => last.kind = "DriverDown" /\ retry.reconnects = n
           /\ IF retry.method = "prepare"
              THEN /\ retry.pc = "done" <=> last.kind # "DriverDown"
                   /\ retry.pc # "retry"
              ELSE /\ n <= 2 /\ retry.reconnects <= 1
                   /\ n = 2 => retry.pc = "done" /\ retry.calls[2].sent = retry.calls[1].ret.buf
                   /\ retry.pc # "loop"

\* A query whose retry found the driver down again and returned that.
C33_Witness ==
    /\ retry.pc = "done" /\ retry.method = "query_raw"
    /\ retry.out.kind = "DriverDown" /\ retry.reconnects = 1 /\ Len(retry.calls) = 2

(***************************************************************************)
(* Specifications                                                          *)
(***************************************************************************)
\* No unit operation has started.
UnitInit ==
    /\ pipe = [pc |-> "idle"]
    /\ reg = RegInit
    /\ cn = [pc |-> "idle"]
    /\ rbody = [pc |-> "idle"]
    /\ rdr = [pc |-> "idle"]
    /\ rows = [pc |-> "idle"]
    /\ retry = [pc |-> "idle"]

Init == PoolInit /\ H1Init /\ UnitInit /\ wio = Dispatcher_new(FALSE)

\* A connection as Dispatcher::new leaves it, for either kind of io.
InitNew == PoolInit /\ H1Init /\ UnitInit /\ \E v \in BOOLEAN : wio = Dispatcher_new(v)

\* A write buffer of either form, empty.
InitTryWrite ==
    /\ PoolInit /\ H1Init /\ UnitInit
    /\ \E v \in BOOLEAN : wio = [Dispatcher_new(v) EXCEPT !.kind = WriteBuf_new(v)]

\* The callers of a SharedClient whose statements_cache is empty.
SpecPool == Init /\ [][PoolNext]_vars

\* The calls of prepare_cached on their own.
SpecPrepare == Init /\ [][PrepareNext]_vars

\* The same callers after a phase of prepare_cached calls.
SpecCache == Init /\ [][CacheNext]_vars

\* One connection served by Dispatcher::run.
SpecH1 == Init /\ [][H1Next]_vars

\* Io::try_write on a write buffer of either form.
SpecTryWrite == InitTryWrite /\ [][WriteNext]_vars

\* The write buffer of a connection made by Dispatcher::new.
SpecNew == InitNew /\ [][WriteNext]_vars

\* One call of SharedClient::pipeline on a client whose driver can go down.
SpecPipeline == Init /\ [][PipelineNext]_vars

\* The requests of one session and the backend messages that answer them.
SpecRegistry == Init /\ [][RegistryNext]_vars

\* One call of driver::connect on a list of hosts.
SpecConnect == Init /\ [][ConnectNext]_vars

\* One ResponseBody polled while the server sends the body.
SpecBody == Init /\ [][BodyNext]_vars

\* One Redirect, built and turned into a response.
SpecRedirect == Init /\ [][RedirectNext]_vars

SpecRows == Init /\ [][RowsNext]_vars

SpecRetry == Init /\ [][RetryNext]_vars

====
